---- MODULE Spec2Model ----
(***************************************************************************)
(* Model of the autochecker batch evaluation pipeline:                     *)
(*   autochecker/engine.py            CheckEngine                          *)
(*   autochecker/batch_processor.py   process_single_student, process_batch*)
(*   autochecker/plagiarism_checker.py PlagiarismChecker                   *)
(*   autochecker/reporter.py          Reporter                             *)
(* Python values that may be of the wrong type are tagged records; a call  *)
(* that may raise returns Ok(v) or Raise(type, len), len being the length  *)
(* of the exception's message.                                             *)
(***************************************************************************)
EXTENDS Integers, Sequences, FiniteSets, TLC

(* ------------------------------------------------------------------ *)
(* Bounds of the model                                                 *)
(* ------------------------------------------------------------------ *)
MaxRoster == 2      \* longest roster
MaxWorkers == 2     \* largest max_workers
MaxFaults == 1      \* unexpected exceptions the environment raises in a run
MaxChecks == 2      \* checks one engine evaluates in a row
MaxClients == 2     \* clients of one repository running at once
MaxCalls == 2       \* requests one client issues

(* ------------------------------------------------------------------ *)
(* Program constants                                                   *)
(* ------------------------------------------------------------------ *)
ErrorLimit == 200       \* str(e)[:200]
LlmErrorLimit == 100    \* str(e)[:100]
RunCheckArity == 3      \* run_check(self, check_id, check_type, params)

(* ------------------------------------------------------------------ *)
(* Python values                                                       *)
(* ------------------------------------------------------------------ *)
Ok(v) == [ok |-> TRUE, val |-> v]
Raise(t, n) == [ok |-> FALSE, exc |-> t, len |-> n]

\* a value is tagged by the name of its one field
PyStr(s) == [str |-> s]
PyInt(n) == [int |-> n]
PyNone == [none |-> TRUE]
IsStr(x) == DOMAIN x = {"str"}
IsInt(x) == DOMAIN x = {"int"}

Min(a, b) == IF a < b THEN a ELSE b
Smaller(a, b) == IF a < b THEN a ELSE b
Max(a, b) == IF a > b THEN a ELSE b

\* s[:n] on a message of length len
Truncate(len, n) == Min(len, n)

\* sum(1 for x in seq if P(x))
CountIf(seq, P(_)) == Cardinality({i \in 1..Len(seq) : P(seq[i])})

(* ------------------------------------------------------------------ *)
(* Regular expressions: a pattern is a literal text (a tuple of        *)
(* characters) or a value re.compile refuses; re.match(p, s) matches   *)
(* at position 0 only and does not have to reach the end of s.         *)
(* ------------------------------------------------------------------ *)
BadPattern == PyStr(<<"(">>)

IsPrefix(p, s) == Len(p) <= Len(s) /\ \A i \in 1..Len(p) : p[i] = s[i]

re_match(pattern, text) ==
  IF ~IsStr(pattern) \/ ~IsStr(text) THEN Raise("TypeError", 35)
  ELSE IF pattern = BadPattern THEN Raise("re.error", 45)
  ELSE Ok(IsPrefix(pattern.str, text.str))

(* ------------------------------------------------------------------ *)
(* The data one student's client and reader serve (RepositorySnapshot) *)
(*   info    : what get_repo_info returns: "none", "private", "public",*)
(*             or "raise" when the client raises                       *)
(*   zip     : whether RepoReader._download got an archive             *)
(*   files   : path -> content digest of the archive's files           *)
(*   commits, issues, prs : Ok(list) or a Raise of the client          *)
(* ------------------------------------------------------------------ *)
EmptyCache == <<>>

\* RepoReader.file_exists
file_exists(env, path) ==
  IF ~env.zip THEN FALSE
  ELSE IsStr(path) /\ path.str \in DOMAIN env.files

\* CheckEngine._get_commits: [res, cache, calls]
get_commits(env, cache) ==
  IF "commits" \in DOMAIN cache
    THEN [res |-> Ok(cache["commits"]), cache |-> cache, calls |-> <<>>]
  ELSE IF env.info = "raise"
    THEN [res |-> Raise("ValueError", 30), cache |-> cache,
          calls |-> <<"get_repo_info">>]
  ELSE IF env.info # "none"
    THEN IF env.commits.ok
           THEN [res |-> env.commits,
                 cache |-> ("commits" :> env.commits.val) @@ cache,
                 calls |-> <<"get_repo_info", "get_commits">>]
           ELSE [res |-> env.commits, cache |-> cache,
                 calls |-> <<"get_repo_info", "get_commits">>]
  ELSE [res |-> Ok(<<>>), cache |-> ("commits" :> <<>>) @@ cache,
        calls |-> <<"get_repo_info">>]

\* a cache tested by truthiness: an empty cached list counts as missing
get_issues_if_truthy(env, cache) ==
  IF "issues" \in DOMAIN cache /\ cache["issues"] # <<>>
    THEN [res |-> Ok(cache["issues"]), cache |-> cache, calls |-> <<>>]
  ELSE IF env.issues.ok
    THEN [res |-> env.issues, cache |-> ("issues" :> env.issues.val) @@ cache,
          calls |-> <<"get_issues">>]
  ELSE [res |-> env.issues, cache |-> cache, calls |-> <<"get_issues">>]

\* CheckEngine._get_issues
get_issues(env, cache) ==
  IF "issues" \in DOMAIN cache
    THEN [res |-> Ok(cache["issues"]), cache |-> cache, calls |-> <<>>]
  ELSE IF env.issues.ok
    THEN [res |-> env.issues, cache |-> ("issues" :> env.issues.val) @@ cache,
          calls |-> <<"get_issues">>]
  ELSE [res |-> env.issues, cache |-> cache, calls |-> <<"get_issues">>]

\* CheckEngine._get_prs
get_prs(env, cache) ==
  IF "prs" \in DOMAIN cache
    THEN [res |-> Ok(cache["prs"]), cache |-> cache, calls |-> <<>>]
  ELSE IF env.prs.ok
    THEN [res |-> env.prs, cache |-> ("prs" :> env.prs.val) @@ cache,
          calls |-> <<"get_pull_requests">>]
  ELSE [res |-> env.prs, cache |-> cache, calls |-> <<"get_pull_requests">>]

\* f(**params): the keyword arguments must be exactly f's parameters
BindArgs(params, names) ==
  IF DOMAIN params = names THEN Ok(params)
  ELSE Raise("TypeError", 60)

\* count >= min_count
AtLeast(count, min_count) ==
  IF IsInt(min_count) THEN Ok(count >= min_count.int)
  ELSE Raise("TypeError", 55)

\* the first index of seq whose re.match is not a match, 0 when all match
FirstNonMatch(pattern, seq) ==
  LET bad == {i \in 1..Len(seq) : re_match(pattern, seq[i]) # Ok(TRUE)}
  IN IF bad = {} THEN 0 ELSE CHOOSE i \in bad : \A j \in bad : i <= j

\* CheckEngine.check_repo_exists
check_repo_exists(env, cache) ==
  [res |-> IF env.info = "raise" THEN Raise("ValueError", 30)
           ELSE Ok(env.info # "none"),
   cache |-> cache, calls |-> <<"get_repo_info">>]

\* CheckEngine.check_file_exists
check_file_exists(env, cache, path) ==
  [res |-> Ok(file_exists(env, path)), cache |-> cache, calls |-> <<>>]

\* all(...) over the commits: an empty list passes
check_commit_message_regex_vacuous(env, cache, pattern) ==
  LET g == get_commits(env, cache)
      commits == g.res.val
      k == FirstNonMatch(pattern, commits)
  IN IF ~g.res.ok THEN g
     ELSE IF k = 0 THEN [g EXCEPT !.res = Ok(TRUE)]
     ELSE IF re_match(pattern, commits[k]).ok THEN [g EXCEPT !.res = Ok(FALSE)]
     ELSE [g EXCEPT !.res = re_match(pattern, commits[k])]

\* CheckEngine.check_commit_message_regex
check_commit_message_regex(env, cache, pattern) ==
  LET g == get_commits(env, cache)
      commits == g.res.val
      k == FirstNonMatch(pattern, commits)
  IN IF ~g.res.ok THEN g
     ELSE IF commits = <<>> THEN [g EXCEPT !.res = Ok(FALSE)]
     ELSE IF k = 0 THEN [g EXCEPT !.res = Ok(TRUE)]
     ELSE IF re_match(pattern, commits[k]).ok THEN [g EXCEPT !.res = Ok(FALSE)]
     ELSE [g EXCEPT !.res = re_match(pattern, commits[k])]

\* CheckEngine.check_issues_count
check_issues_count(env, cache, title_regex, min_count) ==
  LET g == get_issues(env, cache)
      issues == g.res.val
      bad == {i \in 1..Len(issues) : ~re_match(title_regex, issues[i]).ok}
      first == CHOOSE i \in bad : \A j \in bad : i <= j
      count == Cardinality({i \in 1..Len(issues) :
                              re_match(title_regex, issues[i]) = Ok(TRUE)})
  IN IF ~g.res.ok THEN g
     ELSE IF bad # {} THEN [g EXCEPT !.res = re_match(title_regex, issues[first])]
     ELSE [g EXCEPT !.res = AtLeast(count, min_count)]

\* len(prs) >= min_count: every pull request counted
check_pr_count(env, cache, min_count) ==
  LET g == get_prs(env, cache)
  IN IF ~g.res.ok THEN g
     ELSE [g EXCEPT !.res = AtLeast(Len(g.res.val), min_count)]

\* CheckEngine.check_pr_merged_count
check_pr_merged_count(env, cache, min_count) ==
  LET g == get_prs(env, cache)
      merged(pr) == pr
      count == CountIf(g.res.val, merged)
  IN IF ~g.res.ok THEN g
     ELSE [g EXCEPT !.res = AtLeast(count, min_count)]

CheckResult(id, status, details) ==
  [id |-> id, status |-> status, details |-> details]

NoDetails == [kind |-> "none"]
UnknownTypeUnnamed(check_type) == [kind |-> "unknown_type", type |-> ""]
UnknownTypeDetails(check_type) == [kind |-> "unknown_type", type |-> check_type]
ExceptionDetails(check_id, e) ==
  [kind |-> "exception", id |-> check_id, len |-> e.len]

KnownTypes == {"repo_exists", "file_exists", "commit_message_regex",
               "issues_count", "pr_merged_count"}

\* the branch of run_check's if/elif chain for check_type
Dispatch(check_type, params, env, cache) ==
  LET fail(e) == [res |-> e, cache |-> cache, calls |-> <<>>]
  IN CASE check_type = "repo_exists" -> check_repo_exists(env, cache)
       [] check_type = "file_exists" ->
            LET b == BindArgs(params, {"path"})
            IN IF b.ok THEN check_file_exists(env, cache, params["path"])
               ELSE fail(b)
       [] check_type = "commit_message_regex" ->
            LET b == BindArgs(params, {"pattern"})
            IN IF b.ok
                 THEN check_commit_message_regex(env, cache, params["pattern"])
               ELSE fail(b)
       [] check_type = "issues_count" ->
            LET b == BindArgs(params, {"title_regex", "min_count"})
            IN IF b.ok
                 THEN check_issues_count(env, cache, params["title_regex"],
                                         params["min_count"])
               ELSE fail(b)
       [] check_type = "pr_merged_count" ->
            LET b == BindArgs(params, {"min_count"})
            IN IF b.ok
                 THEN check_pr_merged_count(env, cache, params["min_count"])
               ELSE fail(b)

\* except Exception: the exception types run_check's handler catches
CatchesOnlyLookupErrors(exc) == exc \in {"KeyError", "ValueError"}
Catches(exc) == TRUE

\* CheckEngine.run_check: [res, cache, calls], res being Ok(CheckResult) or
\* the exception that leaves run_check
run_check(check_id, check_type, params, env, cache) ==
  IF check_type \notin KnownTypes
    THEN [res |-> Ok(CheckResult(check_id, "ERROR",
                                 UnknownTypeDetails(check_type))),
          cache |-> cache, calls |-> <<>>]
  ELSE LET d == Dispatch(check_type, params, env, cache)
       IN IF d.res.ok
            THEN [d EXCEPT !.res =
                    Ok(CheckResult(check_id,
                                   IF d.res.val = TRUE THEN "PASS" ELSE "FAIL",
                                   NoDetails))]
          ELSE IF Catches(d.res.exc)
            THEN [d EXCEPT !.res =
                    Ok(CheckResult(check_id, "ERROR",
                                   ExceptionDetails(check_id, d.res)))]
          ELSE d

(* ------------------------------------------------------------------ *)
(* PlagiarismChecker.  _student_code_signatures is a dict, modelled as *)
(* the sequence of its items in insertion order: [student, sig], sig a *)
(* function path -> digest.  A file's digest 0 stands for a content    *)
(* read_file gives no text for (empty, or not UTF-8).                  *)
(* ------------------------------------------------------------------ *)
IgnoredDirs == {".git/", "node_modules/", "__pycache__/", ".venv/"}
IgnoredExts == {".png", ".jpg", ".jpeg", ".gif", ".pdf", ".zip", ".exe"}

\* a path of the model's universe: [dir, name, ext]; dir is "" at the root
InIgnoredDir(path) == path.dir \in IgnoredDirs
HasIgnoredExt(path) == path.ext \in IgnoredExts

Keys(items) == {items[i].student : i \in 1..Len(items)}
IndexOf(items, student) ==
  CHOOSE i \in 1..Len(items) : items[i].student = student
Lookup(items, student) == items[IndexOf(items, student)].sig

\* d[k] = v on a dict: a present key keeps its place
DictSet(items, student, sig) ==
  IF student \in Keys(items)
    THEN [items EXCEPT ![IndexOf(items, student)].sig = sig]
  ELSE Append(items, [student |-> student, sig |-> sig])

\* the signatures add_student_code computes from a downloaded archive
Signature(env) ==
  LET kept == {f \in DOMAIN env.files :
                 /\ ~InIgnoredDir(f)
                 /\ ~HasIgnoredExt(f)
                 /\ env.files[f] # 0}
  IN [f \in kept |-> env.files[f]]

\* without the early return of lines 18-19: a reader without an archive
\* registers an empty signature
add_student_code_without_archive(items, student, env) ==
  DictSet(items, student, IF env.zip THEN Signature(env) ELSE <<>>)

\* PlagiarismChecker.add_student_code: the dict afterwards
add_student_code(items, student, env) ==
  IF ~env.zip THEN items
  ELSE DictSet(items, student, Signature(env))

\* similarity > threshold
MoreThanFrac(a, b) == a.num * b.den > b.num * a.den

\* the comparison reversed: similarity <= threshold
AtMostFrac(a, b) == a.num * b.den <= b.num * a.den

\* similarity >= threshold, both as fractions [num, den]
AtLeastFrac(a, b) == a.num * b.den >= b.num * a.den

\* the share of the student's own files that are identical
MatchOverOwnFiles(student_files, other_student, other_files) ==
  LET common == DOMAIN student_files \cap DOMAIN other_files
      identical == {f \in common : student_files[f] = other_files[f]}
  IN [suspicious_student |-> other_student,
      similarity_score |->
        [num |-> Cardinality(identical),
         den |-> Cardinality(DOMAIN student_files)],
      identical_files |-> identical,
      common_files_count |-> Cardinality(common),
      total_files_student |-> Cardinality(DOMAIN student_files),
      total_files_other |-> Cardinality(DOMAIN other_files)]

Match(student_files, other_student, other_files) ==
  LET common == DOMAIN student_files \cap DOMAIN other_files
      identical == {f \in common : student_files[f] = other_files[f]}
  IN [suspicious_student |-> other_student,
      similarity_score |->
        [num |-> Cardinality(identical),
         den |-> Max(Cardinality(DOMAIN student_files),
                     Cardinality(DOMAIN other_files))],
      identical_files |-> identical,
      common_files_count |-> Cardinality(common),
      total_files_student |-> Cardinality(DOMAIN student_files),
      total_files_other |-> Cardinality(DOMAIN other_files)]

\* list.sort(key=similarity_score, reverse=True): stable, descending
RECURSIVE InsertDesc(_, _)
InsertDesc(sorted, m) ==
  IF sorted = <<>> THEN <<m>>
  ELSE IF AtLeastFrac(Head(sorted).similarity_score, m.similarity_score)
    THEN <<Head(sorted)>> \o InsertDesc(Tail(sorted), m)
  ELSE <<m>> \o sorted

\* the matches left in the order the loop found them
Unsorted(ms) == ms

RECURSIVE SortDesc(_)
SortDesc(ms) ==
  IF ms = <<>> THEN <<>>
  ELSE InsertDesc(SortDesc(SubSeq(ms, 1, Len(ms) - 1)), ms[Len(ms)])

\* a loop that compares a student with the students registered later only
RECURSIVE CollectLaterMatches(_, _, _, _)
CollectLaterMatches(items, student, threshold, k) ==
  IF k > Len(items) THEN <<>>
  ELSE LET other == items[k]
           m == Match(Lookup(items, student), other.student, other.sig)
           rest == CollectLaterMatches(items, student, threshold, k + 1)
       IN IF /\ k > IndexOf(items, student)
             /\ m.common_files_count > 0
             /\ m.identical_files # {}
             /\ AtLeastFrac(m.similarity_score, threshold)
            THEN <<m>> \o rest
          ELSE rest

\* a loop without the "if other_student == student_alias: continue"
RECURSIVE CollectMatchesWithSelf(_, _, _, _)
CollectMatchesWithSelf(items, student, threshold, k) ==
  IF k > Len(items) THEN <<>>
  ELSE LET other == items[k]
           m == Match(Lookup(items, student), other.student, other.sig)
           rest == CollectMatchesWithSelf(items, student, threshold, k + 1)
       IN IF /\ m.common_files_count > 0
             /\ m.identical_files # {}
             /\ AtLeastFrac(m.similarity_score, threshold)
            THEN <<m>> \o rest
          ELSE rest

\* the matches of the loop over the other students, in dict order
RECURSIVE CollectMatches(_, _, _, _)
CollectMatches(items, student, threshold, k) ==
  IF k > Len(items) THEN <<>>
  ELSE LET other == items[k]
           m == Match(Lookup(items, student), other.student, other.sig)
           rest == CollectMatches(items, student, threshold, k + 1)
       IN IF /\ other.student # student
             /\ m.common_files_count > 0
             /\ m.identical_files # {}
             /\ AtLeastFrac(m.similarity_score, threshold)
            THEN <<m>> \o rest
          ELSE rest

\* without the guard of lines 57-58: the lookup of line 60 raises KeyError
check_plagiarism_unguarded(items, student, threshold) ==
  IF student \notin Keys(items) THEN Raise("KeyError", 7)
  ELSE SortDesc(CollectMatches(items, student, threshold, 1))

\* PlagiarismChecker.check_plagiarism
check_plagiarism(items, student, threshold) ==
  IF student \notin Keys(items) THEN <<>>
  ELSE SortDesc(CollectMatches(items, student, threshold, 1))

\* the divisors of line 84 without the guards of lines 69-70 and 83
DivisorsUnguarded(items, student) ==
  { Max(Cardinality(DOMAIN Lookup(items, student)),
        Cardinality(DOMAIN items[k].sig)) :
      k \in {j \in 1..Len(items) : items[j].student # student} }

\* line 84: the values of max(len(student_files), len(other_files)) the
\* loop divides by, one for each other student with an identical file
Divisors(items, student) ==
  { Max(Cardinality(DOMAIN Lookup(items, student)),
        Cardinality(DOMAIN items[k].sig)) :
      k \in {j \in 1..Len(items) :
               LET m == Match(Lookup(items, student), items[j].student,
                              items[j].sig)
               IN /\ items[j].student # student
                  /\ m.common_files_count > 0
                  /\ m.identical_files # {} } }

\* a call of check_plagiarism: the list it returns, or the exception of a
\* division by zero
check_plagiarism_call(items, student, threshold) ==
  IF student \in Keys(items) /\ 0 \in Divisors(items, student)
    THEN Raise("ZeroDivisionError", 16)
  ELSE Ok(check_plagiarism(items, student, threshold))

\* every registered student -> matches, flagged or not
get_all_including_unflagged(items, threshold) ==
  [s \in Keys(items) |-> check_plagiarism(items, s, threshold)]

\* PlagiarismChecker.get_all_plagiarism_report: flagged student -> matches
get_all_plagiarism_report(items, threshold) ==
  LET flagged == {s \in Keys(items) :
                    check_plagiarism(items, s, threshold) # <<>>}
  IN [s \in flagged |-> check_plagiarism(items, s, threshold)]

\* a call of get_all_plagiarism_report: the exception of one of its
\* check_plagiarism calls leaves it
get_all_plagiarism_report_call(items, threshold) ==
  IF \E s \in Keys(items) : ~check_plagiarism_call(items, s, threshold).ok
    THEN Raise("ZeroDivisionError", 16)
  ELSE Ok(get_all_plagiarism_report(items, threshold))

(* ------------------------------------------------------------------ *)
(* Inputs of a batch run                                               *)
(* ------------------------------------------------------------------ *)
Students == {"alice", "bob"}

README == [dir |-> "", name |-> "README", ext |-> ".md"]
MainPy == [dir |-> "", name |-> "main", ext |-> ".py"]
Logo == [dir |-> "", name |-> "logo", ext |-> ".png"]
GitConfig == [dir |-> ".git/", name |-> "config", ext |-> ""]

Repo(info, zip, files, prs) ==
  [info |-> info, zip |-> zip, files |-> files,
   commits |-> Ok(<<>>), issues |-> Ok(<<>>), prs |-> Ok(prs)]

NoRepo == Repo("none", FALSE, <<>>, <<>>)

Range(seq) == {seq[i] : i \in 1..Len(seq)}

\* the repositories a student of the batch may have (a student who is not
\* on the roster is never asked for)
Worlds ==
  { NoRepo,
    Repo("private", FALSE, <<>>, <<>>),
    Repo("public", FALSE, <<>>, <<>>),
    Repo("public", TRUE, (README :> 1) @@ (Logo :> 3), <<FALSE>>),
    Repo("public", TRUE, (README :> 1) @@ (MainPy :> 2), <<TRUE>>) }

CheckSpec(id, type, params) ==
  [id |-> id, type |-> type, params |-> params, description |-> ""]

\* file_exists README.md, then pr_merged_count min_count=1
ScenarioChecks ==
  << CheckSpec("readme", "file_exists", [path |-> PyStr(README)]),
     CheckSpec("prs", "pr_merged_count", [min_count |-> PyInt(1)]) >>

LabSpecs == { <<>>, ScenarioChecks }

\* plagiarism_threshold: the default 0.8
Thresholds == { [num |-> 4, den |-> 5] }

RECURSIVE SeqsUpTo(_, _)
SeqsUpTo(S, n) ==
  IF n = 0 THEN {<<>>}
  ELSE LET shorter == SeqsUpTo(S, n - 1)
       IN shorter \cup {Append(q, x) : q \in shorter, x \in S}

Rosters == SeqsUpTo(Students, MaxRoster)

\* messages of the exceptions the environment raises: within and past the limit
FaultLens == {ErrorLimit - 1, ErrorLimit + 1}

(* ------------------------------------------------------------------ *)
(* State                                                               *)
(* ------------------------------------------------------------------ *)
VARIABLES
  cfg,               \* process_batch's arguments and the files they name
  world,             \* student -> the repository the hosting API serves
  phase,             \* where process_batch is
  students,          \* the loaded roster
  lab_spec,          \* lab_spec.checks
  futures,           \* the futures dict, in insertion order
  task,              \* the submitted process_single_student calls
  results,           \* process_batch's results list
  collected,         \* the futures as_completed has yielded
  signatures,        \* PlagiarismChecker._student_code_signatures
  plagiarism_report, \* what get_all_plagiarism_report returned
  queries,           \* calls of get_all_plagiarism_report so far
  summary_html,      \* student -> <output_dir>/<student>/summary.html
  summary,           \* the cohort summary
  faults,            \* exceptions the environment has raised
  engine,            \* a CheckEngine called on its own, with its snapshot
  detector,          \* a PlagiarismChecker called on its own: its last query
  client             \* GitHubClients of one repository and the cache directory

batch_vars == <<cfg, world, phase, students, lab_spec, futures, task, results,
                collected, signatures, plagiarism_report, queries,
                summary_html, summary, faults>>
vars == <<cfg, world, phase, students, lab_spec, futures, task, results,
          collected, signatures, plagiarism_report, queries,
          summary_html, summary, faults, engine, detector, client>>

NoValue == <<>>

NoEngine == [phase |-> "unused"]

Init ==
  /\ cfg \in [students_file_exists : BOOLEAN, spec_file_exists : BOOLEAN,
              roster : Rosters, checks : LabSpecs, gemini_api_key : BOOLEAN,
              max_workers : 1..MaxWorkers, check_plagiarism : BOOLEAN,
              plagiarism_threshold : Thresholds]
  /\ world \in [Students -> Worlds]
  /\ \A s \in Students \ Range(cfg.roster) : world[s] = NoRepo
  /\ phase = "LOADING"
  /\ students = <<>>
  /\ lab_spec = NoValue
  /\ futures = <<>>
  /\ task = <<>>
  /\ results = <<>>
  /\ collected = {}
  /\ signatures = <<>>
  /\ plagiarism_report = NoValue
  /\ queries = 0
  /\ summary_html = [s \in Students |-> "absent"]
  /\ summary = NoValue
  /\ faults = 0
  /\ engine = NoEngine
  /\ detector = NoValue
  /\ client = NoValue

(* ------------------------------------------------------------------ *)
(* process_single_student, one action per step.  A task is             *)
(*   [student, pc, repo_info, zip, files, ran, outcomes, cache,        *)
(*    llm_analysis, raised, propagated, result]                        *)
(* zip and files are the archive the call's RepoReader downloaded, ran *)
(* lists the steps that have run, raised the step whose exception      *)
(* reached the handler of line 130.                                    *)
(* ------------------------------------------------------------------ *)
NewTask(student) ==
  [student |-> student, pc |-> "queued", repo_info |-> "unset",
   zip |-> FALSE, files |-> <<>>, ran |-> {}, outcomes |-> <<>>, cache |-> EmptyCache,
   llm_analysis |-> "unset", raised |-> "none", propagated |-> FALSE,
   result |-> NoValue]

Tasks == 1..Len(task)
Running(i) == task[i].pc \notin {"queued", "done"}
Done(i) == task[i].pc = "done"

ErrorResult(student, text, len) ==
  [student |-> student, status |-> "error",
   error |-> [text |-> text, len |-> len]]

\* score = (passed / total * 100) if total > 0 else 0, as a fraction
ScoreAllOnEmpty(passed, total) ==
  IF total > 0 THEN [num |-> passed * 100, den |-> total]
  ELSE [num |-> 100, den |-> 1]
Score(passed, total) ==
  IF total > 0 THEN [num |-> passed * 100, den |-> total]
  ELSE [num |-> 0, den |-> 1]

IsPass(r) == r.status = "PASS"

SuccessResult(student, outcomes) ==
  [student |-> student, status |-> "success",
   score |-> Score(CountIf(outcomes, IsPass), Len(outcomes)),
   passed |-> CountIf(outcomes, IsPass), total |-> Len(outcomes),
   repo_url |-> student]

\* except Exception as e (line 130): the exceptions the handler catches
OuterCatchesOnlyOSError(exc) == exc = "OSError"
OuterCatches(exc) == TRUE

\* str(e)[:200]
ErrorMsg(len) == Truncate(len, ErrorLimit)

\* an exception raised in step pc of task t: the handler's result, or the
\* exception leaving process_single_student
Except(t, exc, len) ==
  IF OuterCatches(exc)
    THEN [t EXCEPT !.pc = "done", !.raised = t.pc,
                   !.result = ErrorResult(t.student, exc, ErrorMsg(len))]
  ELSE [t EXCEPT !.pc = "done", !.raised = t.pc, !.propagated = TRUE,
                 !.result = [exc |-> exc, len |-> len]]

Step(t, pc) == [t EXCEPT !.pc = pc, !.ran = t.ran \cup {t.pc}]

\* the same, for a step that raises
RaiseIn(t, exc, len) == Except([t EXCEPT !.ran = t.ran \cup {t.pc}], exc, len)

\* ThreadPoolExecutor(max_workers=max_workers): a worker thread is idle
WorkerFreeAlways == TRUE
WorkerFree == Cardinality({j \in Tasks : Running(j)}) < cfg.max_workers

\* a worker thread takes the oldest queued call (lines 202-215)
Start(i) ==
  /\ i \in Tasks
  /\ task[i].pc = "queued"
  /\ \A j \in 1..(i - 1) : task[j].pc # "queued"
  /\ WorkerFree
  /\ task' = [task EXCEPT ![i].pc = "prepare"]
  /\ UNCHANGED <<cfg, world, phase, students, lab_spec, futures, results,
                 collected, signatures, plagiarism_report, queries,
                 summary_html, summary, faults, engine, detector, client>>

\* lines 28-40: the student's directory, old results removed
Prepare(i) ==
  /\ i \in Tasks
  /\ task[i].pc = "prepare"
  /\ task' = [task EXCEPT ![i] = Step(@, "info")]
  /\ summary_html' = [summary_html EXCEPT ![task[i].student] = "absent"]
  /\ UNCHANGED <<cfg, world, phase, students, lab_spec, futures, results,
                 collected, signatures, plagiarism_report, queries,
                 summary, faults, engine, detector, client>>

\* the step after get_repo_info (lines 44, 56)
AfterInfoIgnoringPrivate(info) == IF info = "none" THEN "fail_report" ELSE "download"
AfterInfo(info) ==
  IF info \in {"none", "private"} THEN "fail_report" ELSE "download"

\* line 40: the owner of the repository the call's own client asks for
RepoOwnerLastSubmitted(i) == task[Len(task)].student
RepoOwner(i) == task[i].student

\* line 43: client.get_repo_info()
FetchInfo(i) ==
  /\ i \in Tasks
  /\ task[i].pc = "info"
  /\ LET info == world[RepoOwner(i)].info
     IN task' = [task EXCEPT ![i] =
                   [Step(@, AfterInfo(info)) EXCEPT !.repo_info = info]]
  /\ UNCHANGED <<cfg, world, phase, students, lab_spec, futures, results,
                 collected, signatures, plagiarism_report, queries,
                 summary_html, summary, faults, engine, detector, client>>

\* lines 45-54 and 57-66: the failure report and the error result
FailReport(i) ==
  /\ i \in Tasks
  /\ task[i].pc = "fail_report"
  /\ summary_html' = [summary_html EXCEPT ![task[i].student] = "failure"]
  /\ task' = [task EXCEPT ![i] =
       [Step(@, "done") EXCEPT !.result =
          IF task[i].repo_info = "none"
            THEN ErrorResult(task[i].student, "Repository not found", 20)
          ELSE ErrorResult(task[i].student, "Private repository", 18)]]
  /\ UNCHANGED <<cfg, world, phase, students, lab_spec, futures, results,
                 collected, signatures, plagiarism_report, queries,
                 summary, faults, engine, detector, client>>

\* line 69: RepoReader(...), whose _download swallows a failed download
Download(i) ==
  /\ i \in Tasks
  /\ task[i].pc = "download"
  /\ task' = [task EXCEPT ![i] =
       [Step(@, "register") EXCEPT !.zip = world[task[i].student].zip,
                                   !.files = world[task[i].student].files]]
  /\ UNCHANGED <<cfg, world, phase, students, lab_spec, futures, results,
                 collected, signatures, plagiarism_report, queries,
                 summary_html, summary, faults, engine, detector, client>>

\* what the call's client and reader serve: the hosting API as it is now,
\* the archive as it was downloaded
Snapshot(t) == [world[t.student] EXCEPT !.zip = t.zip, !.files = t.files]

\* the step after the registration: the check loop, or past it when the
\* specification has no check
AfterRegister == IF lab_spec = <<>> THEN "llm" ELSE "checks"

\* lines 72-74: plagiarism_checker.add_student_code(student_alias, reader)
Register(i) ==
  /\ i \in Tasks
  /\ task[i].pc = "register"
  /\ task' = [task EXCEPT ![i] = Step(@, AfterRegister)]
  /\ signatures' =
       IF cfg.check_plagiarism
         THEN add_student_code(signatures, task[i].student, Snapshot(task[i]))
       ELSE signatures
  /\ UNCHANGED <<cfg, world, phase, students, lab_spec, futures, results,
                 collected, plagiarism_report, queries,
                 summary_html, summary, faults, engine, detector, client>>

\* lines 82-87: the arguments process_single_student passes to run_check
CallArgs(check_spec) ==
  <<check_spec.id, check_spec.type, check_spec.params, check_spec.description>>

\* engine.run_check(*args): a call with the wrong number of positional
\* arguments raises TypeError before run_check's body runs
RunCheckCall(args, env, cache) ==
  IF Len(args) # RunCheckArity
    THEN [res |-> Raise("TypeError", 69), cache |-> cache, calls |-> <<>>]
  ELSE run_check(args[1], args[2], args[3], env, cache)

\* lines 79-88: one iteration of the check loop
RunCheck(i) ==
  /\ i \in Tasks
  /\ task[i].pc = "checks"
  /\ LET t == task[i]
         k == Len(t.outcomes) + 1
         env == Snapshot(t)
         r == RunCheckCall(CallArgs(lab_spec[k]), env, t.cache)
     IN task' = [task EXCEPT ![i] =
          IF r.res.ok
            THEN [Step(t, IF k = Len(lab_spec) THEN "llm" ELSE "checks")
                    EXCEPT !.outcomes = Append(t.outcomes, r.res.val),
                           !.cache = r.cache]
          ELSE RaiseIn(t, r.res.exc, r.res.len)]
  /\ UNCHANGED <<cfg, world, phase, students, lab_spec, futures, results,
                 collected, signatures, plagiarism_report, queries,
                 summary_html, summary, faults, engine, detector, client>>

\* what analyze_repo may do: return the model's verdict, return its own
\* sentinel (lines 267-279 of llm_analyzer.py), return a JSON value that is
\* no object (json.loads of the model's text, line 231), or raise
LlmBehaviours == {"verdict", "sentinel", "not_an_object", "raise"}

NoAnalysis == [shape |-> "none"]
Verdict == [shape |-> "dict", verdict |-> "good"]
Sentinel(len) == [shape |-> "dict", verdict |-> "analysis_failed", len |-> len]
NotAnObject == [shape |-> "list"]

\* lines 99-104: the sentinel the pipeline substitutes, str(e)[:100]
LlmHandler(len) == Sentinel(Truncate(len, LlmErrorLimit))

analyze_repo(behaviour) ==
  CASE behaviour = "verdict" -> Ok(Verdict)
    [] behaviour = "sentinel" -> Ok(Sentinel(LlmErrorLimit + 1))
    [] behaviour = "not_an_object" -> Ok(NotAnObject)
    [] behaviour = "raise" -> Raise("KeyError", LlmErrorLimit + 1)

\* lines 91-104
Llm(i) ==
  /\ i \in Tasks
  /\ task[i].pc = "llm"
  /\ IF cfg.gemini_api_key
       THEN \E b \in LlmBehaviours :
              LET r == analyze_repo(b)
              IN task' = [task EXCEPT ![i] =
                   [Step(@, "write") EXCEPT !.llm_analysis =
                      IF r.ok THEN r.val ELSE LlmHandler(r.len)]]
     ELSE task' = [task EXCEPT ![i] =
                     [Step(@, "write") EXCEPT !.llm_analysis = NoAnalysis]]
  /\ UNCHANGED <<cfg, world, phase, students, lab_spec, futures, results,
                 collected, signatures, plagiarism_report, queries,
                 summary_html, summary, faults, engine, detector, client>>

\* Reporter.write_html: the page, or the exception of llm_analysis.get on a
\* value that is no dict
write_html(llm_analysis) ==
  CASE llm_analysis.shape = "none" -> Ok("report")
    [] llm_analysis.shape = "dict" -> Ok("report_llm")
    [] OTHER -> Raise("AttributeError", 36)

\* lines 107-128: the reports, the statistics, the success result
Write(i) ==
  /\ i \in Tasks
  /\ task[i].pc = "write"
  /\ LET t == task[i]
         page == write_html(t.llm_analysis)
     IN IF page.ok
          THEN /\ summary_html' = [summary_html EXCEPT ![t.student] = page.val]
               /\ task' = [task EXCEPT ![i] =
                    [Step(t, "done") EXCEPT !.result =
                       SuccessResult(t.student, t.outcomes)]]
        ELSE /\ summary_html' = summary_html
             /\ task' = [task EXCEPT ![i] = RaiseIn(t, page.exc, page.len)]
  /\ UNCHANGED <<cfg, world, phase, students, lab_spec, futures, results,
                 collected, signatures, plagiarism_report, queries,
                 summary, faults, engine, detector, client>>

\* the steps in which the file system, the client or the reader may raise
\* an exception no inner handler catches
FaultSteps == {"prepare", "info", "fail_report", "download", "register", "write"}

Fault(i) ==
  /\ i \in Tasks
  /\ task[i].pc \in FaultSteps
  /\ faults < MaxFaults
  /\ \E len \in FaultLens :
       task' = [task EXCEPT ![i] = RaiseIn(@, "OSError", len)]
  /\ faults' = faults + 1
  /\ UNCHANGED <<cfg, world, phase, students, lab_spec, futures, results,
                 collected, signatures, plagiarism_report, queries,
                 summary_html, summary, engine, detector, client>>

\* the archive after the student pushed a change of README.md
Pushed(files) == (README :> 5) @@ files

\* a student pushes while the batch runs: later downloads of the same
\* repository give another archive (an event of the environment, counted
\* with its exceptions)
Push(s) ==
  /\ phase \in {"DISPATCHING", "COLLECTING"}
  /\ s \in Range(students)
  /\ world[s].zip
  /\ faults < MaxFaults
  /\ world' = [world EXCEPT ![s].files = Pushed(@)]
  /\ faults' = faults + 1
  /\ UNCHANGED <<cfg, phase, students, lab_spec, futures, task, results,
                 collected, signatures, plagiarism_report, queries,
                 summary_html, summary, engine, detector, client>>

(* ------------------------------------------------------------------ *)
(* process_batch                                                       *)
(* ------------------------------------------------------------------ *)
\* line 166 raises FileNotFoundError, and so does open() in load_spec
LoadFailsOnRosterOnly(students_file_exists, spec_file_exists) ==
  ~students_file_exists
LoadFails(students_file_exists, spec_file_exists) ==
  ~students_file_exists \/ ~spec_file_exists

\* lines 162-191: the roster and the specification are read
Load ==
  /\ phase = "LOADING"
  /\ IF LoadFails(cfg.students_file_exists, cfg.spec_file_exists)
       THEN /\ phase' = "ABORTED"
            /\ UNCHANGED <<students, lab_spec>>
     ELSE /\ students' = cfg.roster
          /\ lab_spec' = cfg.checks
          /\ phase' = "DISPATCHING"
  /\ UNCHANGED <<cfg, world, futures, task, results, collected, signatures,
                 plagiarism_report, queries, summary_html, summary, faults,
                 engine, detector, client>>

\* futures[future] = student: one key per submitted call
FuturesPutByStudent(futs, future, student) ==
  LET same == {k \in 1..Len(futs) : futs[k].student = student}
  IN IF same = {} THEN Append(futs, [future |-> future, student |-> student])
     ELSE [futs EXCEPT ![CHOOSE k \in same : TRUE].future = future]
FuturesPut(futs, future, student) ==
  Append(futs, [future |-> future, student |-> student])

\* lines 203-215: executor.submit for the next roster entry
Submit ==
  /\ phase = "DISPATCHING"
  /\ Len(task) < Len(students)
  /\ LET k == Len(task) + 1
     IN /\ task' = Append(task, NewTask(students[k]))
        /\ futures' = FuturesPut(futures, k, students[k])
  /\ UNCHANGED <<cfg, world, phase, students, lab_spec, results, collected,
                 signatures, plagiarism_report, queries, summary_html,
                 summary, faults, engine, detector, client>>

\* line 218: every roster entry is submitted, as_completed starts
BeginCollect ==
  /\ phase = "DISPATCHING"
  /\ Len(task) = Len(students)
  /\ phase' = "COLLECTING"
  /\ UNCHANGED <<cfg, world, students, lab_spec, futures, task, results,
                 collected, signatures, plagiarism_report, queries,
                 summary_html, summary, faults, engine, detector, client>>

\* lines 218-237: as_completed yields a finished future
Collect(k) ==
  /\ phase = "COLLECTING"
  /\ k \in 1..Len(futures)
  /\ futures[k].future \notin collected
  /\ Done(futures[k].future)
  /\ LET t == task[futures[k].future]
     IN results' = Append(results,
          IF t.propagated
            THEN ErrorResult(futures[k].student, t.result.exc,
                             Truncate(t.result.len, ErrorLimit))
          ELSE t.result)
  /\ collected' = collected \cup {futures[k].future}
  /\ UNCHANGED <<cfg, world, phase, students, lab_spec, futures, task,
                 signatures, plagiarism_report, queries, summary_html,
                 summary, faults, engine, detector, client>>

\* as_completed is exhausted and the executor's shutdown(wait=True) returned
PoolDrainedAfterFirst ==
  \/ collected # {}
  \/ futures = <<>>
PoolDrained ==
  /\ \A k \in 1..Len(futures) : futures[k].future \in collected
  /\ \A i \in Tasks : Done(i)

\* line 238: the with block is left
Join ==
  /\ phase = "COLLECTING"
  /\ PoolDrained
  /\ phase' = "DEDUPLICATING"
  /\ UNCHANGED <<cfg, world, students, lab_spec, futures, task, results,
                 collected, signatures, plagiarism_report, queries,
                 summary_html, summary, faults, engine, detector, client>>

\* lines 254-273: the section is put before the page's LLM heading
MergeFlag(page) == IF page = "report_llm" THEN "report_llm_flagged" ELSE page

\* line 243: if check_plagiarism and plagiarism_checker
ShouldQueryAlways == TRUE
ShouldQuery == cfg.check_plagiarism

\* lines 242-273: the detector's report, merged into the flagged pages
Deduplicate ==
  /\ phase = "DEDUPLICATING"
  /\ IF ShouldQuery
       THEN LET report == get_all_plagiarism_report(signatures,
                                                    cfg.plagiarism_threshold)
            IN /\ plagiarism_report' = report
               /\ queries' = queries + 1
               /\ summary_html' =
                    [s \in Students |->
                       IF s \in DOMAIN report THEN MergeFlag(summary_html[s])
                       ELSE summary_html[s]]
     ELSE UNCHANGED <<plagiarism_report, queries, summary_html>>
  /\ phase' = "AGGREGATING"
  /\ UNCHANGED <<cfg, world, students, lab_spec, futures, task, results,
                 collected, signatures, summary, faults, engine, detector, client>>

IsSuccess(r) == r.status = "success"
IsError(r) == r.status = "error"

\* the students of the roster, each counted once
TotalStudentsDistinct == Cardinality(Range(students))

\* line 277: "total_students"
TotalStudents == Len(students)

\* line 281: elapsed_time / len(students) if students else 0
AverageTimeUnguarded(n) ==
  IF n # 0 THEN Ok("elapsed_per_student") ELSE Raise("ZeroDivisionError", 22)
AverageTime(n) == IF n # 0 THEN Ok("elapsed_per_student") ELSE Ok(0)

\* line 326: the key of the table's sort, -1 for an error result
Rank(r) == IF r.status = "success" THEN r.score ELSE [num |-> -1, den |-> 1]

\* sorted(results, key=Rank, reverse=True): stable, descending
RECURSIVE InsertRow(_, _)
InsertRow(sorted, r) ==
  IF sorted = <<>> THEN <<r>>
  ELSE IF AtLeastFrac(Rank(Head(sorted)), Rank(r))
    THEN <<Head(sorted)>> \o InsertRow(Tail(sorted), r)
  ELSE <<r>> \o sorted

RECURSIVE SortedRows(_)
SortedRows(rs) ==
  IF rs = <<>> THEN <<>>
  ELSE InsertRow(SortedRows(SubSeq(rs, 1, Len(rs) - 1)), rs[Len(rs)])

\* the rows in the order of the results list
RowsAsCollected(rs) == rs

\* lines 326-344: the rows of batch_summary.html
TableRows(rs) == SortedRows(rs)

\* lines 276-362: the cohort summary, batch_summary.json (the fields but
\* html_rows) and batch_summary.html (html_rows)
Aggregate ==
  /\ phase = "AGGREGATING"
  /\ IF AverageTime(Len(students)).ok
       THEN /\ summary' = [total_students |-> TotalStudents,
                           successful |-> CountIf(results, IsSuccess),
                           failed |-> CountIf(results, IsError),
                           average_time_per_student |->
                             AverageTime(Len(students)).val,
                           plagiarism_detected |->
                             IF plagiarism_report = NoValue THEN 0
                             ELSE Cardinality(DOMAIN plagiarism_report),
                           results |-> results,
                           html_rows |-> TableRows(results)]
            /\ phase' = "DONE"
     ELSE /\ summary' = summary
          /\ phase' = "ABORTED"
  /\ UNCHANGED <<cfg, world, students, lab_spec, futures, task, results,
                 collected, signatures, plagiarism_report, queries,
                 summary_html, faults, engine, detector, client>>

Next ==
  \/ Load
  \/ Submit
  \/ BeginCollect
  \/ \E i \in Tasks : Start(i)
  \/ \E i \in Tasks : Prepare(i)
  \/ \E i \in Tasks : FetchInfo(i)
  \/ \E i \in Tasks : FailReport(i)
  \/ \E i \in Tasks : Download(i)
  \/ \E i \in Tasks : Register(i)
  \/ \E i \in Tasks : RunCheck(i)
  \/ \E i \in Tasks : Llm(i)
  \/ \E i \in Tasks : Write(i)
  \/ \E i \in Tasks : Fault(i)
  \/ \E s \in Students : Push(s)
  \/ \E k \in 1..Len(futures) : Collect(k)
  \/ Join
  \/ Deduplicate
  \/ Aggregate

Spec == Init /\ [][Next]_vars

\* every worker thread terminates and process_batch keeps running: a step
\* that can be taken is eventually taken
SpecLive == Spec /\ WF_vars(Next)

(* ------------------------------------------------------------------ *)
(* A CheckEngine called with run_check's own signature: checks are run *)
(* one after the other on one engine, the client and the reader        *)
(* answering each call as the environment of that moment has it.       *)
(*   engine = [phase, n, cache, fetched, last]                         *)
(* fetched counts the client's calls per list, last records the check  *)
(* just run: [check, env, before, res].                                *)
(* ------------------------------------------------------------------ *)
Feat == <<"f", "e", "a", "t">>
Fix == <<"f", "i", "x">>

Lists(commits, issues, prs) ==
  [commits |-> commits, issues |-> issues, prs |-> prs]

EngineLists ==
  { Lists(Ok(<<>>), Ok(<<>>), Ok(<<>>)),
    Lists(Ok(<<PyStr(Feat)>>), Ok(<<PyStr(Fix)>>), Ok(<<TRUE>>)),
    Lists(Ok(<<PyStr(Feat), PyStr(Fix)>>), Ok(<<PyStr(Feat), PyStr(Feat)>>),
          Ok(<<FALSE, TRUE>>)),
    Lists(Ok(<<PyStr(Feat), PyNone>>), Ok(<<PyNone>>), Ok(<<FALSE>>)),
    Lists(Raise("ValueError", 300), Raise("ValueError", 300),
          Raise("ValueError", 300)) }

EngineEnvs ==
  { [info |-> i, zip |-> z, files |-> (README :> 1),
     commits |-> l.commits, issues |-> l.issues, prs |-> l.prs] :
      i \in {"none", "public", "raise"}, z \in BOOLEAN,
      l \in EngineLists }

EngineChecks ==
  { CheckSpec("c1", "repo_exists", <<>>),
    CheckSpec("c2", "file_exists", [path |-> PyStr(README)]),
    CheckSpec("c3", "file_exists", [path |-> PyStr(MainPy)]),
    CheckSpec("c4", "file_exists", <<>>),
    CheckSpec("c5", "commit_message_regex", [pattern |-> PyStr(<<"f">>)]),
    CheckSpec("c6", "commit_message_regex", [pattern |-> PyStr(Feat)]),
    CheckSpec("c7", "commit_message_regex", [pattern |-> BadPattern]),
    CheckSpec("c8", "commit_message_regex", [regex |-> PyStr(Feat)]),
    CheckSpec("c9", "issues_count",
              [title_regex |-> PyStr(Feat), min_count |-> PyInt(2)]),
    CheckSpec("c10", "issues_count",
              [title_regex |-> PyStr(<<"f">>), min_count |-> PyStr(<<"1">>)]),
    CheckSpec("c11", "issues_count", [title_regex |-> PyStr(Feat)]),
    CheckSpec("c12", "pr_merged_count", [min_count |-> PyInt(1)]),
    CheckSpec("c13", "pr_merged_count", [min_count |-> PyInt(0)]),
    CheckSpec("c14", "pr_merged_count", [min_count |-> PyNone]),
    CheckSpec("c15", "pr_merged", [min_count |-> PyInt(1)]),
    CheckSpec("c16", "FILE_EXISTS", [path |-> PyStr(README)]) }

ClientCalls == {"get_repo_info", "get_commits", "get_issues", "get_pull_requests"}

InitEngine ==
  /\ cfg = [roster |-> <<>>, checks |-> <<>>, gemini_api_key |-> FALSE,
            max_workers |-> 1, check_plagiarism |-> FALSE,
            plagiarism_threshold |-> [num |-> 4, den |-> 5]]
  /\ world = [s \in Students |-> NoRepo]
  /\ phase = "ENGINE"
  /\ students = <<>>
  /\ lab_spec = NoValue
  /\ futures = <<>>
  /\ task = <<>>
  /\ results = <<>>
  /\ collected = {}
  /\ signatures = <<>>
  /\ plagiarism_report = NoValue
  /\ queries = 0
  /\ summary_html = [s \in Students |-> "absent"]
  /\ summary = NoValue
  /\ faults = 0
  /\ engine = [phase |-> "ready", n |-> 0, cache |-> EmptyCache,
               fetched |-> [c \in ClientCalls |-> 0], last |-> NoValue]
  /\ detector = NoValue
  /\ client = NoValue

\* engine.run_check(check.id, check.type, check.params)
EngineRunCheck ==
  /\ engine.phase = "ready"
  /\ engine.n < MaxChecks
  /\ \E check \in EngineChecks, env \in EngineEnvs :
       LET r == run_check(check.id, check.type, check.params, env, engine.cache)
       IN engine' =
            [phase |-> IF r.res.ok THEN "ready" ELSE "raised",
             n |-> engine.n + 1,
             cache |-> r.cache,
             fetched |-> [c \in ClientCalls |->
                            engine.fetched[c]
                            + Cardinality({j \in 1..Len(r.calls) : r.calls[j] = c})],
             last |-> [check |-> check, env |-> env, before |-> engine.cache,
                       res |-> r.res]]
  /\ UNCHANGED <<batch_vars, detector, client>>

NextEngine == EngineRunCheck

SpecEngine == InitEngine /\ [][NextEngine]_vars

(* ------------------------------------------------------------------ *)
(* A PlagiarismChecker on its own: add_student_code is called once per *)
(* student, in any order, and get_all_plagiarism_report once, at any   *)
(* point of the registrations.                                         *)
(*   students   : the students add_student_code was called for, in     *)
(*                call order                                           *)
(*   signatures : _student_code_signatures                             *)
(*   world      : student -> the archive the student's reader holds    *)
(* ------------------------------------------------------------------ *)
DetectorStudents == Students \cup {"carol"}

UtilPy == [dir |-> "", name |-> "util", ext |-> ".py"]
TestPy == [dir |-> "", name |-> "test", ext |-> ".py"]

Archive(files) == Repo("public", TRUE, files, <<>>)

FourFiles == (README :> 1) @@ (MainPy :> 2) @@ (UtilPy :> 3) @@ (TestPy :> 4)
\* the same four paths, three of them with the same content
FourFilesOneChanged == [FourFiles EXCEPT ![TestPy] = 5]

DetectorRepos ==
  { Repo("public", FALSE, <<>>, <<>>),
    Archive(<<>>),
    Archive((README :> 1) @@ (Logo :> 3)),
    Archive((README :> 1) @@ (MainPy :> 2)),
    Archive((README :> 9) @@ (MainPy :> 8)),
    Archive((README :> 1) @@ (GitConfig :> 7) @@ (MainPy :> 0)),
    Archive(FourFiles),
    Archive(FourFilesOneChanged) }

DetectorThresholds ==
  { [num |-> 0, den |-> 1], [num |-> 3, den |-> 4],
    [num |-> 4, den |-> 5], [num |-> 1, den |-> 1] }

InitDetector ==
  /\ cfg \in [roster : {<<>>}, checks : {<<>>}, gemini_api_key : {FALSE},
              max_workers : {1}, check_plagiarism : {TRUE},
              plagiarism_threshold : DetectorThresholds]
  /\ world \in [DetectorStudents -> DetectorRepos]
  /\ phase = "INGEST"
  /\ students = <<>>
  /\ lab_spec = NoValue
  /\ futures = <<>>
  /\ task = <<>>
  /\ results = <<>>
  /\ collected = {}
  /\ signatures = <<>>
  /\ plagiarism_report = NoValue
  /\ queries = 0
  /\ summary_html = [s \in Students |-> "absent"]
  /\ summary = NoValue
  /\ faults = 0
  /\ engine = NoEngine
  /\ detector = NoValue
  /\ client = NoValue

\* plagiarism_checker.add_student_code(s, reader)
DetectorAdd(s) ==
  /\ phase = "INGEST"
  /\ s \notin Range(students)
  /\ students' = Append(students, s)
  /\ signatures' = add_student_code(signatures, s, world[s])
  /\ UNCHANGED <<cfg, world, phase, lab_spec, futures, task, results, collected,
                 plagiarism_report, queries, summary_html, summary, faults, engine, detector, client>>

\* plagiarism_checker.get_all_plagiarism_report(threshold)
DetectorReport ==
  /\ phase = "INGEST"
  /\ queries' = queries + 1
  /\ LET r == get_all_plagiarism_report_call(signatures,
                                             cfg.plagiarism_threshold)
     IN /\ phase' = IF r.ok THEN "REPORTED" ELSE "RAISED"
        /\ plagiarism_report' = IF r.ok THEN r.val ELSE plagiarism_report
  /\ UNCHANGED <<cfg, world, students, lab_spec, futures, task, results,
                 collected, signatures, summary_html, summary, faults, engine, detector, client>>

\* plagiarism_checker.check_plagiarism(s, threshold), for any student id
DetectorCheck(s) ==
  /\ phase = "INGEST"
  /\ LET r == check_plagiarism_call(signatures, s, cfg.plagiarism_threshold)
     IN detector' = [student |-> s,
                     matches |-> IF r.ok THEN r.val ELSE <<>>,
                     raised |-> ~r.ok]
  /\ UNCHANGED <<cfg, world, phase, students, lab_spec, futures, task, results,
                 collected, signatures, plagiarism_report, queries,
                 summary_html, summary, faults, engine, client>>

NextDetector ==
  \/ \E s \in DetectorStudents : DetectorAdd(s)
  \/ \E s \in DetectorStudents : DetectorCheck(s)
  \/ DetectorReport

SpecDetector == InitDetector /\ [][NextDetector]_vars

(* ------------------------------------------------------------------ *)
(* GitHubClients of one repository, each in its own worker thread, and *)
(* the cache directory they share. A call of _get is a sequence of     *)
(* steps: the file-system calls and the HTTP request are the points    *)
(* where another thread can run.                                       *)
(*   client.server : endpoint -> what the hosting API answers          *)
(*   client.disk   : endpoint -> the cache file of that request        *)
(*   client.worker : the _get call each client is in                   *)
(* A JSON document is "[]" (an empty list) or "[...]" (a list with     *)
(* entries); a file opened for writing and not yet written holds       *)
(* "incomplete", which is no JSON document.                            *)
(* ------------------------------------------------------------------ *)
Endpoints == {"", "issues?state=all&per_page=100"}

Documents == {"[]", "[...]"}

Responses == {"error"} \cup Documents

\* get_repo_info passes use_cache=False, the list getters the default
UseCache(endpoint) == endpoint # ""

\* bool(data) of a parsed JSON document
Truthy(data) == data = "[...]"

NoFile == [exists |-> FALSE, content |-> "absent", opened |-> 0, reopened |-> FALSE]

Idle == [pc |-> "idle", endpoint |-> "", data |-> "unset", result |-> NoValue,
         calls |-> 0]

Clients == 1..MaxClients

InitClient ==
  /\ cfg = [roster |-> <<>>, checks |-> <<>>, gemini_api_key |-> FALSE,
            max_workers |-> MaxClients, check_plagiarism |-> FALSE,
            plagiarism_threshold |-> [num |-> 4, den |-> 5]]
  /\ world = [s \in Students |-> NoRepo]
  /\ phase = "CLIENT"
  /\ students = <<>>
  /\ lab_spec = NoValue
  /\ futures = <<>>
  /\ task = <<>>
  /\ results = <<>>
  /\ collected = {}
  /\ signatures = <<>>
  /\ plagiarism_report = NoValue
  /\ queries = 0
  /\ summary_html = [s \in Students |-> "absent"]
  /\ summary = NoValue
  /\ faults = 0
  /\ engine = NoEngine
  /\ detector = NoValue
  /\ client \in [server : [Endpoints -> Responses],
                  disk : {[e \in Endpoints |-> NoFile]},
                  worker : {[w \in Clients |-> Idle]}]

\* one step of worker w's call: its new state and the cache directory's
ClientStep(w, state, disk) ==
  /\ client' = [client EXCEPT !.worker[w] = state, !.disk = disk]
  /\ UNCHANGED <<batch_vars, engine, detector>>

\* the call has returned or raised
Return(t, result) == [t EXCEPT !.pc = "idle", !.result = result]

\* self._get(endpoint, use_cache): the call begins
ClientGet(w) ==
  LET t == client.worker[w]
  IN /\ phase = "CLIENT"
     /\ t.pc = "idle"
     /\ t.calls < MaxCalls
     /\ \E e \in Endpoints :
          ClientStep(w, [t EXCEPT !.pc = IF UseCache(e) THEN "exists" ELSE "request",
                                  !.endpoint = e, !.data = "unset",
                                  !.result = NoValue, !.calls = @ + 1],
                     client.disk)

\* _get_cached: cache_file.exists()
ClientExists(w) ==
  LET t == client.worker[w]
  IN /\ t.pc = "exists"
     /\ ClientStep(w, [t EXCEPT !.pc = IF client.disk[t.endpoint].exists
                                         THEN "load" ELSE "request"],
                    client.disk)

\* json.load of what the file holds at this moment
json_load(content) ==
  IF content \in Documents THEN Ok(content)
  ELSE Raise("JSONDecodeError", 40)

\* _get_cached: open(cache_file, "r") and json.load(f), then _get's
\* "if cached_data: return cached_data"; the call is outside _get's try
ClientLoad(w) ==
  LET t == client.worker[w]
      cached_data == json_load(client.disk[t.endpoint].content)
  IN /\ t.pc = "load"
     /\ ClientStep(w,
                    IF ~cached_data.ok THEN [Return(t, cached_data) EXCEPT !.pc = "raised"]
                    ELSE IF Truthy(cached_data.val) THEN Return(t, cached_data)
                    ELSE [t EXCEPT !.pc = "request"],
                    client.disk)

\* requests.get, raise_for_status and response.json(); a failed request
\* returns None
ClientRequest(w) ==
  LET t == client.worker[w]
      response == client.server[t.endpoint]
  IN /\ t.pc = "request"
     /\ ClientStep(w,
                    IF response = "error" THEN Return(t, Ok("None"))
                    ELSE IF UseCache(t.endpoint)
                      THEN [t EXCEPT !.pc = "open", !.data = response]
                    ELSE Return(t, Ok(response)),
                    client.disk)

\* _set_cache: open(cache_file, "w") creates the file or empties it
ClientOpen(w) ==
  LET t == client.worker[w]
      f == client.disk[t.endpoint]
  IN /\ t.pc = "open"
     /\ ClientStep(w, [t EXCEPT !.pc = "dump"],
                    [client.disk EXCEPT ![t.endpoint] =
                       [exists |-> TRUE, content |-> "incomplete",
                        opened |-> f.opened + 1,
                        reopened |-> f.reopened \/ f.content \in Documents]])

\* _set_cache: json.dump(data, f) and the close of the file
ClientDump(w) ==
  LET t == client.worker[w]
  IN /\ t.pc = "dump"
     /\ ClientStep(w, Return(t, Ok(t.data)),
                    [client.disk EXCEPT ![t.endpoint].content = t.data])

NextClient ==
  \E w \in Clients :
    \/ ClientGet(w)
    \/ ClientExists(w)
    \/ ClientLoad(w)
    \/ ClientRequest(w)
    \/ ClientOpen(w)
    \/ ClientDump(w)

SpecClient == InitClient /\ [][NextClient]_vars

(* ================================================================== *)
(* Claims                                                              *)
(* ================================================================== *)
AfterPool == {"DEDUPLICATING", "AGGREGATING", "DONE"}

(* C1: the detector's full report is asked for only after every submitted
   process_single_student call has finished: from the moment process_batch
   leaves the pool, every roster entry has been submitted and no call is
   before, inside or after add_student_code without having returned. *)
C1_QueryAfterAllTasks ==
  (phase \in AfterPool \/ queries > 0) =>
    /\ Len(task) = Len(students)
    /\ \A i \in Tasks : Done(i)

\* two students were registered and the report was asked for
C1_Witness ==
  /\ queries > 0
  /\ Len(signatures) >= 2
  /\ Len(task) >= 2

(* C2: process_single_student never lets an exception out: a finished call
   has exactly one result, for its own student, with status success or
   error, and an exception that reached the handler of line 130 gives
   status error with a message of at most 200 characters. *)
C2_NeverPropagates ==
  \A i \in Tasks :
    /\ ~task[i].propagated
    /\ ~Done(i) => task[i].result = NoValue
    /\ Done(i) =>
         /\ task[i].result.student = task[i].student
         /\ task[i].result.status \in {"success", "error"}
         /\ task[i].raised # "none" =>
              /\ task[i].result.status = "error"
              /\ task[i].result.error.len <= ErrorLimit

\* a call whose check step raised, and a call whose long message was cut
C2_Witness ==
  /\ \E i \in Tasks : Done(i) /\ task[i].raised = "checks"
                      /\ task[i].result.status = "error"
  /\ \E i \in Tasks : Done(i) /\ task[i].raised \in FaultSteps
                      /\ task[i].result.error.len = ErrorLimit

(* C3: once the pool is left, results holds one result per roster entry,
   duplicate entries included: as many results as roster entries, and for
   every student as many results as the roster names that student. *)
C3_OneResultPerEntry ==
  phase \in AfterPool =>
    /\ Len(results) = Len(students)
    /\ \A s \in Students :
         Cardinality({k \in 1..Len(results) : results[k].student = s})
           = Cardinality({k \in 1..Len(students) : students[k] = s})

\* a roster naming the same student twice, both results collected
C3_Witness ==
  /\ phase = "DONE"
  /\ Len(students) = 2
  /\ students[1] = students[2]
  /\ Len(results) = 2

\* the result of a finished call as its own student's repository and the
\* exceptions of its own steps determine it
OwnResult(i) ==
  LET t == task[i]
      own == world[t.student]
  IN IF t.raised # "none" THEN "error"
     ELSE IF own.info = "none" THEN "Repository not found"
     ELSE IF own.info = "private" THEN "Private repository"
     ELSE "success"

Outcome(r) ==
  IF r.status = "success" THEN "success"
  ELSE IF r.error.text \in {"Repository not found", "Private repository"}
    THEN r.error.text
  ELSE "error"

(* C4: a student's terminal failure stays in that student's result: every
   finished call's result names its own student and is the one its own
   repository and its own steps determine, whatever the other students'
   repositories are; and total_students is the roster's length. *)
C4_FailureIsolated ==
  /\ \A i \in Tasks :
       Done(i) => /\ task[i].result.student = task[i].student
                  /\ Outcome(task[i].result) = OwnResult(i)
  /\ summary # NoValue =>
       /\ summary.total_students = Len(cfg.roster)
       /\ Len(summary.results) = Len(cfg.roster)

\* a student with no repository beside a student who succeeds
C4_Witness ==
  /\ summary # NoValue
  /\ summary.total_students = 2
  /\ \E i, j \in Tasks :
       /\ task[i].student # task[j].student
       /\ Outcome(task[i].result) = "Repository not found"
       /\ Outcome(task[j].result) = "success"

LaterSteps == {"download", "register", "checks", "llm", "write"}

(* C5: when get_repo_info returns nothing or a private repository, the call
   goes to the failure report and returns an error result: the download,
   the registration, the checks, the LLM call and the report writing never
   run for it. *)
C5_TerminalFailureStops ==
  \A i \in Tasks :
    task[i].repo_info \in {"none", "private"} =>
      /\ task[i].pc \in {"fail_report", "done"}
      /\ task[i].ran \cap LaterSteps = {}
      /\ task[i].outcomes = <<>>
      /\ task[i].llm_analysis = "unset"
      /\ Done(i) => task[i].result.status = "error"

\* a private repository's call returned its error result
C5_Witness ==
  \E i \in Tasks :
    /\ Done(i)
    /\ task[i].repo_info = "private"
    /\ task[i].ran = {"prepare", "info", "fail_report"}
    /\ task[i].result.error.text = "Private repository"

(* C6: a call that got past the registration ends with one outcome per
   CheckSpec of the specification, in the specification's order. *)
C6_AllChecksRun ==
  \A i \in Tasks :
    (Done(i) /\ "register" \in task[i].ran /\ task[i].raised # "register") =>
      /\ Len(task[i].outcomes) = Len(lab_spec)
      /\ \A k \in 1..Len(lab_spec) : task[i].outcomes[k].id = lab_spec[k].id

(* C7: a success result carries passed = the number of PASS outcomes, total
   = the number of checks, and score = 100 * passed / total, which lies in
   [0, 100] and is 0 when the specification has no check. *)
C7_Score ==
  \A i \in Tasks :
    (Done(i) /\ task[i].result.status = "success") =>
      LET r == task[i].result
          passed == CountIf(task[i].outcomes, IsPass)
      IN /\ r.passed = passed
         /\ r.total = Len(lab_spec)
         /\ r.total > 0 => r.score.num * r.total = 100 * passed * r.score.den
         /\ r.score.den > 0
         /\ 0 <= r.score.num
         /\ r.score.num <= 100 * r.score.den
         /\ r.total = 0 => r.score.num = 0

\* a success result for a specification without checks
C7_Witness ==
  \E i \in Tasks :
    /\ Done(i)
    /\ task[i].result.status = "success"
    /\ task[i].result.total = 0
    /\ task[i].result.score.num = 0

Statuses(outcomes) == [k \in 1..Len(outcomes) |-> outcomes[k].status]

\* README.md is in the student's archive and no pull request is merged
ScenarioRepo(s) ==
  /\ world[s].info = "public"
  /\ world[s].zip
  /\ README \in DOMAIN world[s].files
  /\ \A k \in 1..Len(world[s].prs.val) : ~world[s].prs.val[k]

(* C8: for the two checks file_exists README.md and pr_merged_count
   min_count=1, a student whose archive has README.md and who has no merged
   pull request gets the outcomes PASS, FAIL and a success result with
   score 50 (no step of the call failing on its environment). *)
C8_Scenario ==
  \A i \in Tasks :
    (Done(i) /\ lab_spec = ScenarioChecks /\ ScenarioRepo(task[i].student)
       /\ faults = 0) =>
      /\ Statuses(task[i].outcomes) = <<"PASS", "FAIL">>
      /\ task[i].result.status = "success"
      /\ task[i].result.score.num = 50 * task[i].result.score.den

(* C9: whatever the LLM step did (not configured, a verdict, a failure),
   a call that reached it returns the success result of its check outcomes
   (no step of the call failing on its environment). *)
C9_LlmNeverAffectsResult ==
  \A i \in Tasks :
    (Done(i) /\ "llm" \in task[i].ran /\ faults = 0) =>
      task[i].result = SuccessResult(task[i].student, task[i].outcomes)

(* C10: run_check, called with a check id, a check type and a params
   mapping, never raises: it returns one result for that id whose status is
   PASS, FAIL or ERROR, and ERROR whenever the check it dispatched to raised. *)
C10_RunCheckNeverRaises ==
  engine.phase # "unused" =>
    /\ engine.phase = "ready"
    /\ engine.last # NoValue =>
         LET l == engine.last
         IN /\ l.res.ok
            /\ l.res.val.id = l.check.id
            /\ l.res.val.status \in {"PASS", "FAIL", "ERROR"}
            /\ (/\ l.check.type \in KnownTypes
                /\ ~Dispatch(l.check.type, l.check.params, l.env, l.before).res.ok)
                 => l.res.val.status = "ERROR"

\* a known check raised inside (a TypeError) and came back as ERROR
C10_Witness ==
  /\ engine.phase = "ready"
  /\ engine.last # NoValue
  /\ engine.last.check.type = "pr_merged_count"
  /\ engine.last.res.ok
  /\ engine.last.res.val.status = "ERROR"
  /\ engine.last.res.val.details.kind = "exception"

\* the check engine's last call, when there is one
EngineRan == engine.phase # "unused" /\ engine.last # NoValue

(* C11: a check whose type is none of the five recognized types comes back
   from run_check with status ERROR and details naming that type, whatever
   its params and whatever the client and the reader serve. *)
C11_UnknownTypeIsError ==
  (EngineRan /\ engine.last.check.type \notin KnownTypes) =>
    LET l == engine.last
    IN /\ l.res.ok
       /\ l.res.val.status = "ERROR"
       /\ l.res.val.details.kind = "unknown_type"
       /\ l.res.val.details.type = l.check.type

\* an unknown type with a well-formed params mapping, on a reachable repository
C11_Witness ==
  /\ EngineRan
  /\ engine.last.check.type = "pr_merged"
  /\ engine.last.env.info = "public"
  /\ engine.last.res.val.status = "ERROR"

\* the commit list the engine works on: the cached one, else the client's
EngineCommits(l) == get_commits(l.env, l.before).res

(* C12: a commit_message_regex check with a pattern, on a commit list the
   engine obtained, is PASS exactly when the list is non-empty and re.match
   of the pattern succeeds on every message; on an empty list it is FAIL. *)
C12_CommitRegexAllMatch ==
  (/\ EngineRan
   /\ engine.last.check.type = "commit_message_regex"
   /\ DOMAIN engine.last.check.params = {"pattern"}
   /\ EngineCommits(engine.last).ok) =>
    LET l == engine.last
        commits == EngineCommits(l).val
        pattern == l.check.params["pattern"]
        all_match == \A k \in 1..Len(commits) :
                       /\ IsStr(commits[k])
                       /\ pattern # BadPattern
                       /\ IsPrefix(pattern.str, commits[k].str)
    IN /\ l.res.ok
       /\ l.res.val.status = "PASS" <=> (commits # <<>> /\ all_match)
       /\ commits = <<>> => l.res.val.status = "FAIL"

\* two commits whose messages both match the pattern from position 0
C12_Witness ==
  /\ EngineRan
  /\ engine.last.check.type = "commit_message_regex"
  /\ DOMAIN engine.last.check.params = {"pattern"}
  /\ EngineCommits(engine.last).ok
  /\ Len(EngineCommits(engine.last).val) = 2
  /\ engine.last.res.val.status = "PASS"

(* C13: a pr_merged_count check with an integer min_count, on a pull
   request list the engine obtained, is PASS when the number of merged pull
   requests is at least min_count and FAIL otherwise. *)
C13_MergedCount ==
  (/\ EngineRan
   /\ engine.last.check.type = "pr_merged_count"
   /\ DOMAIN engine.last.check.params = {"min_count"}
   /\ IsInt(engine.last.check.params["min_count"])
   /\ get_prs(engine.last.env, engine.last.before).res.ok) =>
    LET l == engine.last
        prs == get_prs(l.env, l.before).res.val
        merged == Cardinality({k \in 1..Len(prs) : prs[k]})
    IN /\ l.res.ok
       /\ l.res.val.status =
            IF merged >= l.check.params["min_count"].int THEN "PASS" ELSE "FAIL"

\* an unmerged pull request alone does not reach min_count 1
C13_Witness ==
  /\ EngineRan
  /\ engine.last.check = CheckSpec("c12", "pr_merged_count", [min_count |-> PyInt(1)])
  /\ get_prs(engine.last.env, engine.last.before).res = Ok(<<FALSE>>)
  /\ engine.last.res.val.status = "FAIL"

(* C14: an exception raised while a check of a known type is evaluated
   gives status ERROR with details that name the check id and carry the
   exception's message cut to a bounded length (the 200 characters the
   pipeline cuts its own messages to). *)
C14_ExceptionDetailsBounded ==
  (/\ EngineRan
   /\ engine.last.check.type \in KnownTypes
   /\ ~Dispatch(engine.last.check.type, engine.last.check.params,
                engine.last.env, engine.last.before).res.ok) =>
    LET l == engine.last
    IN /\ l.res.ok
       /\ l.res.val.status = "ERROR"
       /\ l.res.val.details.kind = "exception"
       /\ l.res.val.details.id = l.check.id
       /\ l.res.val.details.len <= ErrorLimit

\* a download that gave no archive
NoSnapshot(s) == world[s].info = "public" /\ ~world[s].zip

(* C15: a student whose archive download failed still gets a success
   result, with one outcome per check, every file_exists check FAIL (the
   LLM step not configured, no step of the call failing on its
   environment). *)
C15_FailedDownloadContinues ==
  \A i \in Tasks :
    (Done(i) /\ NoSnapshot(task[i].student) /\ ~cfg.gemini_api_key
       /\ faults = 0) =>
      /\ task[i].result.status = "success"
      /\ Len(task[i].outcomes) = Len(lab_spec)
      /\ \A k \in 1..Len(lab_spec) :
           lab_spec[k].type = "file_exists" => task[i].outcomes[k].status = "FAIL"

\* the detector has answered the full-report query
Reported == phase = "REPORTED"

\* the matches the report holds for a student: none when the student is absent
ReportOf(a) ==
  IF a \in DOMAIN plagiarism_report THEN plagiarism_report[a] ELSE <<>>

\* the positions of b in the matches reported for a
Flags(a, b) ==
  {k \in 1..Len(ReportOf(a)) : ReportOf(a)[k].suspicious_student = b}

\* the common paths of a and b whose digests are equal
Identical(a, b) ==
  LET fa == Lookup(signatures, a)
      fb == Lookup(signatures, b)
  IN {f \in DOMAIN fa \cap DOMAIN fb : fa[f] = fb[f]}

\* max(|files(a)|, |files(b)|)
LargerCount(a, b) ==
  LET na == Cardinality(DOMAIN Lookup(signatures, a))
      nb == Cardinality(DOMAIN Lookup(signatures, b))
  IN IF na >= nb THEN na ELSE nb

(* C16: for distinct registered students A and B, the report holds a match
   of B for A exactly when some common path has equal digests and
   |identical| / max(|files(A)|, |files(B)|) >= threshold (and then holds
   one); with no equal digest there is no match, whatever the threshold. *)
C16_MatchIffSimilar ==
  Reported =>
    \A a, b \in Keys(signatures) :
      a # b =>
        LET th == cfg.plagiarism_threshold
            similar == /\ Identical(a, b) # {}
                       /\ Cardinality(Identical(a, b)) * th.den
                            >= th.num * LargerCount(a, b)
        IN /\ Flags(a, b) # {} <=> similar
           /\ Cardinality(Flags(a, b)) <= 1
           /\ Identical(a, b) = {} => Flags(a, b) = {}

\* at threshold 0: a pair flagged below the larger file count's share, and a
\* pair with common paths and no equal digest left unflagged
C16_Witness ==
  /\ Reported
  /\ cfg.plagiarism_threshold.num = 0
  /\ \E a, b, c \in Keys(signatures) :
       /\ Flags(a, b) # {}
       /\ Cardinality(Identical(a, b)) < LargerCount(a, b)
       /\ DOMAIN Lookup(signatures, a) \cap DOMAIN Lookup(signatures, c) # {}
       /\ Identical(a, c) = {}
       /\ Flags(a, c) = {}

\* the registrations of the same archives in the order alice, bob, carol
AlphabeticalItems ==
  add_student_code(
    add_student_code(
      add_student_code(<<>>, "alice", world["alice"]),
      "bob", world["bob"]),
    "carol", world["carol"])

(* C17: once every student is registered, the full report is the one the
   same archives give when registered in another order (here alice, bob,
   carol): same flagged students, same ordered match lists. *)
C17_OrderIndependent ==
  (Reported /\ Range(students) = DetectorStudents) =>
    plagiarism_report =
      get_all_plagiarism_report(AlphabeticalItems, cfg.plagiarism_threshold)

(* C18: for distinct registered students A and B with an equal digest on a
   common path, the similarity of A against B is the similarity of B
   against A, and B is reported for A with that similarity exactly when A
   is reported for B; when A and B have the same non-empty files with the
   same content the similarity is 1 in both directions. *)
C18_SimilaritySymmetric ==
  Reported =>
    \A a, b \in Keys(signatures) :
      (a # b /\ Identical(a, b) # {}) =>
        LET fa == Lookup(signatures, a)
            fb == Lookup(signatures, b)
            ab == Match(fa, b, fb).similarity_score
            ba == Match(fb, a, fa).similarity_score
        IN /\ ab = ba
           /\ Flags(a, b) # {} <=> Flags(b, a) # {}
           /\ \A k \in Flags(a, b) : ReportOf(a)[k].similarity_score = ab
           /\ \A k \in Flags(b, a) : ReportOf(b)[k].similarity_score = ab
           /\ fa = fb => (ab.num = ab.den /\ Flags(a, b) # {})

\* two students of different sizes flag each other, two others are identical
C18_Witness ==
  /\ Reported
  /\ \E a, b \in Keys(signatures) :
       /\ a # b
       /\ Cardinality(DOMAIN Lookup(signatures, a))
            < Cardinality(DOMAIN Lookup(signatures, b))
       /\ Flags(a, b) # {}
       /\ Flags(b, a) # {}
  /\ \E a, b \in Keys(signatures) :
       /\ a # b
       /\ Lookup(signatures, a) = Lookup(signatures, b)
       /\ Flags(a, b) # {}

\* exactly two students are registered: the four files, and the four files
\* with one changed
ThreeOfFour ==
  /\ Len(signatures) = 2
  /\ {signatures[1].sig, signatures[2].sig} = {FourFiles, FourFilesOneChanged}

(* C19: two students with four common files, three of them identical: at
   threshold 0.8 nothing is reported; at threshold 0.75 each has exactly
   one match, with similarity 0.75 and three identical files. *)
C19_ThreeOfFour ==
  (Reported /\ ThreeOfFour) =>
    /\ cfg.plagiarism_threshold = [num |-> 4, den |-> 5] =>
         DOMAIN plagiarism_report = {}
    /\ cfg.plagiarism_threshold = [num |-> 3, den |-> 4] =>
         \A a \in Keys(signatures) :
           /\ Len(ReportOf(a)) = 1
           /\ Cardinality(ReportOf(a)[1].identical_files) = 3
           /\ ReportOf(a)[1].similarity_score.num * 4
                = 3 * ReportOf(a)[1].similarity_score.den

\* the scenario at threshold 0.75, the first student's match reported
C19_Witness ==
  /\ Reported
  /\ ThreeOfFour
  /\ cfg.plagiarism_threshold = [num |-> 3, den |-> 4]
  /\ Len(ReportOf(signatures[1].student)) = 1

(* C20: every student of the full report has at least one match, each of
   its matches at or above the threshold; a registered student without
   such a match is not in the report. *)
C20_NoEmptyEntry ==
  Reported =>
    /\ DOMAIN plagiarism_report \subseteq Keys(signatures)
    /\ \A a \in DOMAIN plagiarism_report :
         /\ plagiarism_report[a] # <<>>
         /\ \A k \in 1..Len(plagiarism_report[a]) :
              AtLeastFrac(plagiarism_report[a][k].similarity_score,
                          cfg.plagiarism_threshold)
    /\ \A a \in Keys(signatures) :
         (\A b \in Keys(signatures) \ {a} : Flags(a, b) = {}) =>
           a \notin DOMAIN plagiarism_report

\* two students flagged and a third, registered, left out of the report
C20_Witness ==
  /\ Reported
  /\ Len(signatures) = 3
  /\ Cardinality(DOMAIN plagiarism_report) = 2

\* ms is in non-increasing order of similarity_score
Descending(ms) ==
  \A k \in 1..(Len(ms) - 1) :
    ms[k].similarity_score.num * ms[k + 1].similarity_score.den
      >= ms[k + 1].similarity_score.num * ms[k].similarity_score.den

(* C21: the list check_plagiarism returns, and every list of the full
   report, is in non-increasing order of similarity_score. *)
C21_MatchesDescending ==
  /\ detector # NoValue => Descending(detector.matches)
  /\ Reported => \A a \in DOMAIN plagiarism_report :
                   Descending(plagiarism_report[a])

\* the less similar student was registered first and is reported second
C21_Witness ==
  /\ Reported
  /\ \E a \in DOMAIN plagiarism_report :
       LET ms == plagiarism_report[a]
       IN /\ Len(ms) = 2
          /\ ms[1].similarity_score.num * ms[2].similarity_score.den
               > ms[2].similarity_score.num * ms[1].similarity_score.den
          /\ IndexOf(signatures, ms[2].suspicious_student)
               < IndexOf(signatures, ms[1].suspicious_student)

(* C22: with no student registered the full report is empty, and
   check_plagiarism for any student id returns an empty list (no exception)
   when that student, or nobody, has been registered. *)
C22_EmptyBeforeRegistration ==
  /\ (Reported /\ signatures = <<>>) => DOMAIN plagiarism_report = {}
  /\ (detector # NoValue /\ detector.student \notin Keys(signatures)) =>
       detector.matches = <<>>

\* both queries made on a detector nobody is registered with
C22_Witness ==
  /\ Reported
  /\ signatures = <<>>
  /\ students = <<>>
  /\ detector # NoValue
  /\ detector.matches = <<>>

\* the files of the archive add_student_code is to hash
Hashable(files) ==
  {f \in DOMAIN files : ~InIgnoredDir(f) /\ ~HasIgnoredExt(f)}

(* C23: the signature registered for a student with a downloaded archive
   has an entry, with the content digest, for exactly the archive's files
   that are neither under an ignored directory nor of an ignored
   extension. *)
C23_SignatureCoversFiles ==
  \A k \in 1..Len(signatures) :
    LET files == world[signatures[k].student].files
    IN signatures[k].sig = [f \in Hashable(files) |-> files[f]]

(* C24: when the roster file or the specification file is missing,
   process_batch stops in the loading phase: no call is submitted, nothing
   is collected and no summary is built. *)
C24_LoadFailureBeforeDispatch ==
  (~cfg.students_file_exists \/ ~cfg.spec_file_exists) =>
    /\ phase \in {"LOADING", "ABORTED"}
    /\ task = <<>>
    /\ futures = <<>>
    /\ results = <<>>
    /\ signatures = <<>>
    /\ summary = NoValue

\* the roster is there with students on it, the specification file is not
C24_Witness ==
  /\ phase = "ABORTED"
  /\ cfg.students_file_exists
  /\ ~cfg.spec_file_exists
  /\ cfg.roster # <<>>
  /\ task = <<>>

(* C25: once the roster and the specification are loaded, the batch run
   reaches its end with a cohort summary, whatever results the students
   produce (workers that terminate assumed). *)
C25_BatchCompletes ==
  (phase = "DISPATCHING") ~> (phase = "DONE" /\ summary # NoValue)

\* a run that ended with a summary of one success and one error
C25_Witness ==
  /\ phase = "DONE"
  /\ summary # NoValue
  /\ summary.successful = 1
  /\ summary.failed = 1

\* rs is in non-increasing order of Rank
RowsDescending(rs) ==
  \A k \in 1..(Len(rs) - 1) : AtLeastFrac(Rank(rs[k]), Rank(rs[k + 1]))

\* rs and qs hold the same rows, each as many times
SameRows(rs, qs) ==
  /\ Len(rs) = Len(qs)
  /\ \A r \in Range(rs) \cup Range(qs) :
       Cardinality({k \in 1..Len(rs) : rs[k] = r})
         = Cardinality({k \in 1..Len(qs) : qs[k] = r})

(* C26: the rows of the cohort summary (summary["results"], written to
   batch_summary.json) are sorted by descending score, error results below
   every success. *)
C26_SummaryRowsSorted ==
  summary # NoValue => RowsDescending(summary.results)

(* C26, amended: the table of batch_summary.html lists the results sorted
   by descending score, every error result below all success results
   (rank -1); summary["results"], written to batch_summary.json and
   returned, keeps the results in completion order. *)
C26_TableSorted ==
  summary # NoValue =>
    /\ RowsDescending(summary.html_rows)
    /\ SameRows(summary.html_rows, results)
    /\ \A j, k \in 1..Len(summary.html_rows) :
         (IsSuccess(summary.html_rows[j]) /\ IsError(summary.html_rows[k]))
           => j < k
    /\ summary.results = results

\* an error result collected before a success: the table puts it below
C26_Witness ==
  /\ summary # NoValue
  /\ Len(results) = 2
  /\ IsError(results[1])
  /\ IsSuccess(results[2])
  /\ summary.html_rows = <<results[2], results[1]>>

\* the pages Reporter.write_html renders
Rendered == {"report", "report_llm", "report_llm_flagged"}

(* C27: after the duplicate-detection pass, the rendered report of every
   student the duplicate report flags carries the duplicate-suspect
   section, with or without an LLM analysis. *)
C27_FlaggedPagesCarrySection ==
  (phase \in {"AGGREGATING", "DONE"} /\ cfg.check_plagiarism) =>
    \A s \in DOMAIN plagiarism_report :
      summary_html[s] \in Rendered => summary_html[s] = "report_llm_flagged"

\* the steps of the state machine of a batch run
PhaseSteps ==
  { <<"LOADING", "DISPATCHING">>, <<"DISPATCHING", "COLLECTING">>,
    <<"COLLECTING", "DEDUPLICATING">>, <<"DEDUPLICATING", "AGGREGATING">>,
    <<"AGGREGATING", "DONE">>, <<"LOADING", "ABORTED">> }

(* C28: every step of a batch run keeps the phase or moves it to the next
   of LOADING, DISPATCHING, COLLECTING, DEDUPLICATING, AGGREGATING, DONE
   (or from LOADING to the abort); the full report has been queried once
   when the run is past DEDUPLICATING with duplicate checking enabled, and
   not at all otherwise. *)
C28_PhaseOrder ==
  [][ /\ phase' = phase \/ <<phase, phase'>> \in PhaseSteps
      /\ queries' = IF phase' \in {"AGGREGATING", "DONE"} /\ cfg.check_plagiarism
                      THEN 1 ELSE 0 ]_vars

\* a run of two students ended, the detector asked once
C28_Witness ==
  /\ phase = "DONE"
  /\ cfg.check_plagiarism
  /\ queries = 1
  /\ Len(results) = 2

(* C29: at most max_workers calls of process_single_student are executing
   at any moment, and the calls submitted are the roster's entries, one
   each, all of them once the dispatch is over. *)
C29_BoundedPool ==
  /\ phase # "ABORTED" =>
       Cardinality({i \in Tasks : Running(i)}) <= cfg.max_workers
  /\ Len(task) <= Len(students)
  /\ \A k \in Tasks : task[k].student = students[k]
  /\ phase \in {"COLLECTING"} \cup AfterPool => Len(task) = Len(students)

\* one worker: the second call waits while the first executes
C29_Witness ==
  /\ cfg.max_workers = 1
  /\ Len(task) = 2
  /\ Running(1)
  /\ task[2].pc = "queued"

(* C30: a signature registered with the detector is never replaced,
   changed or removed by a later step of the run. *)
C30_SignaturesAppendOnly ==
  [][ \A k \in 1..Len(signatures) :
        /\ k <= Len(signatures')
        /\ signatures'[k] = signatures[k] ]_vars


\* the client call that serves each list of the engine's cache
ListCalls ==
  { [key |-> "commits", call |-> "get_commits"],
    [key |-> "issues", call |-> "get_issues"],
    [key |-> "prs", call |-> "get_pull_requests"] }

\* the client answered the call of the check just run with a list
Returned(l, key) ==
  /\ l.env[key].ok
  /\ key = "commits" => l.env.info \notin {"raise", "none"}

(* C31 as stated: one engine calls the client at most once for each of the
   commit list, the issue list and the pull-request list, whatever the
   checks it runs and whatever the client answers. *)
C31_FetchedAtMostOnce ==
  \A c \in ListCalls : engine.fetched[c.call] <= 1

(* C31: once a list is in the engine's cache, an empty list included, no
   check of that engine calls the client for it again, and a check calls
   the client at most once for a list and caches the list the call
   returned; only a call that raised leaves the list to be asked again. *)
C31_FetchedOnceReturned ==
  [][ \A c \in ListCalls :
        LET before == engine.fetched[c.call]
            after == engine'.fetched[c.call]
        IN /\ after <= before + 1
           /\ c.key \in DOMAIN engine.cache =>
                 /\ after = before
                 /\ engine'.cache[c.key] = engine.cache[c.key]
           /\ (after > before /\ Returned(engine'.last, c.key)) =>
                 /\ c.key \in DOMAIN engine'.cache
                 /\ engine'.cache[c.key] = engine'.last.env[c.key].val ]_vars

\* a second issue check ran on the cached empty issue list: one client call
C31_Witness ==
  /\ EngineRan
  /\ engine.n = 2
  /\ engine.last.check.type = "issues_count"
  /\ DOMAIN engine.last.check.params = {"title_regex", "min_count"}
  /\ "issues" \in DOMAIN engine.last.before
  /\ engine.last.before["issues"] = <<>>
  /\ engine.last.env.issues.ok
  /\ engine.last.env.issues.val # <<>>
  /\ engine.fetched["get_issues"] = 1


\* a call of _get on a cached endpoint never ends in an exception of the
\* cache read
ReadsComplete ==
  \A w \in Clients : client.worker[w].pc # "raised"

\* every cache file has been opened for writing at most once
WrittenOnce ==
  \A e \in Endpoints : client.disk[e].opened <= 1

\* no cache file that held a complete response was opened for writing
StoredNotRewritten ==
  \A e \in Endpoints : ~client.disk[e].reopened

(* C32: the cache file of a request is written at most once, a read of it
   returns a miss or the complete stored response under every interleaving
   of the workers, and a request whose response is stored is not written
   again. *)
C32_CacheWrittenOnceReadComplete ==
  /\ ReadsComplete
  /\ WrittenOnce
  /\ StoredNotRewritten


(* C33: in every cohort summary, successful + failed = total_students, the
   total is the number of roster entries, and the two counts are the
   numbers of submitted calls that returned a success and an error
   result: every roster entry is counted once, on one side. *)
C33_CountsAddUp ==
  summary # NoValue =>
    /\ summary.successful + summary.failed = summary.total_students
    /\ summary.total_students = Len(cfg.roster)
    /\ summary.successful =
         Cardinality({i \in Tasks : task[i].result.status = "success"})
    /\ summary.failed =
         Cardinality({i \in Tasks : task[i].result.status = "error"})

\* a roster naming one student twice, one call a success, the other an error
C33_Witness ==
  /\ phase = "DONE"
  /\ Len(students) = 2
  /\ students[1] = students[2]
  /\ summary.successful = 1
  /\ summary.failed = 1


(* C34: in the full report, at every threshold, A's list holds a match
   naming B exactly when B's list holds a match naming A (one each), and
   the two matches carry equal similarity_score, the same set of identical
   files and the same counts, with the two totals exchanged. *)
C34_ReportSymmetric ==
  Reported =>
    \A a, b \in DetectorStudents :
      /\ Cardinality(Flags(a, b)) <= 1
      /\ Flags(a, b) # {} <=> Flags(b, a) # {}
      /\ \A i \in Flags(a, b), j \in Flags(b, a) :
           LET ab == ReportOf(a)[i]
               ba == ReportOf(b)[j]
           IN /\ ab.similarity_score.num * ba.similarity_score.den
                   = ba.similarity_score.num * ab.similarity_score.den
              /\ ab.identical_files = ba.identical_files
              /\ ab.common_files_count = ba.common_files_count
              /\ ab.total_files_student = ba.total_files_other
              /\ ab.total_files_other = ba.total_files_student

\* at threshold 0 the first and the last registered of three students
\* flag each other on part of their files, the second flags nobody
C34_Witness ==
  /\ Reported
  /\ cfg.plagiarism_threshold.num = 0
  /\ Len(signatures) = 3
  /\ LET a == signatures[1].student
         b == signatures[2].student
         c == signatures[3].student
     IN /\ Flags(a, c) # {}
        /\ Flags(c, a) # {}
        /\ \A k \in Flags(c, a) :
             ReportOf(c)[k].similarity_score.num
               < ReportOf(c)[k].similarity_score.den
        /\ b \notin DOMAIN plagiarism_report


\* m is a well-formed match of a query for student q
WellFormed(q, m) ==
  LET b == m.suspicious_student
      score == m.similarity_score
      th == cfg.plagiarism_threshold
  IN /\ b \in Keys(signatures)
     /\ b # q
     /\ m.identical_files # {}
     /\ m.identical_files
          \subseteq DOMAIN Lookup(signatures, q) \cap DOMAIN Lookup(signatures, b)
     /\ m.common_files_count <= Min(m.total_files_student, m.total_files_other)
     /\ score.den > 0
     /\ score.num > 0
     /\ score.num <= score.den
     /\ score.num * th.den >= th.num * score.den

(* C35: every match check_plagiarism returns, and every match of the full
   report, names a registered student other than the queried one, has a
   non-empty identical_files within the paths common to both, a
   common_files_count of at most the smaller of the two totals, and a
   similarity_score in (0, 1] that is at least the threshold. *)
C35_MatchesWellFormed ==
  /\ detector # NoValue =>
       \A k \in 1..Len(detector.matches) :
         WellFormed(detector.student, detector.matches[k])
  /\ Reported =>
       \A a \in DOMAIN plagiarism_report :
         \A k \in 1..Len(plagiarism_report[a]) :
           WellFormed(a, plagiarism_report[a][k])

\* a query returned two matches, one of them exactly at the threshold 3/4,
\* and the full report has been made
C35_Witness ==
  /\ Reported
  /\ DOMAIN plagiarism_report # {}
  /\ detector # NoValue
  /\ Len(detector.matches) = 2
  /\ cfg.plagiarism_threshold = [num |-> 3, den |-> 4]
  /\ \E k \in 1..2 :
       detector.matches[k].similarity_score = [num |-> 3, den |-> 4]


\* the registered students whose signature has no file
EmptySignatures ==
  {a \in Keys(signatures) : DOMAIN Lookup(signatures, a) = {}}

(* C36: no call of check_plagiarism and no call of
   get_all_plagiarism_report raises, whatever the registered signatures
   and the threshold: students registered with an empty signature never
   make the similarity a division by zero. *)
C36_DetectorNeverRaises ==
  /\ phase # "RAISED"
  /\ detector # NoValue => ~detector.raised
  /\ \A a \in Keys(signatures) : 0 \notin Divisors(signatures, a)

\* two students are registered with an empty signature, next to one with
\* files: the query for one of the two and the full report both returned
C36_Witness ==
  /\ Reported
  /\ Len(signatures) = 3
  /\ Cardinality(EmptySignatures) = 2
  /\ detector # NoValue
  /\ detector.student \in EmptySignatures
  /\ detector.matches = <<>>
  /\ ~detector.raised


\* call i ended in a terminal failure, or its archive download failed
NotRegistering(i) ==
  \/ task[i].repo_info \in {"none", "private"}
  \/ "download" \in task[i].ran /\ ~task[i].zip

\* call i got its archive and went through the registration step
Registering(i) ==
  /\ task[i].repo_info = "public"
  /\ task[i].zip
  /\ "register" \in task[i].ran

\* the students the duplicate report names, as flagged or as suspect
Named ==
  IF plagiarism_report = NoValue THEN {}
  ELSE DOMAIN plagiarism_report
         \cup UNION { { plagiarism_report[a][k].suspicious_student :
                          k \in 1..Len(plagiarism_report[a]) } :
                        a \in DOMAIN plagiarism_report }

(* C37: a student all of whose roster entries ended in a terminal failure
   (repository missing or private) or in a failed archive download is not
   registered with the detector and is named nowhere in the duplicate
   report, neither as flagged nor as suspect; whoever is registered or
   named was registered by a roster entry of that id that got its
   archive. *)
C37_FailedNeverRegistered ==
  /\ \A s \in Students :
       (/\ \E i \in Tasks : task[i].student = s
        /\ \A i \in Tasks : task[i].student = s => NotRegistering(i)) =>
         /\ s \notin Keys(signatures)
         /\ s \notin Named
  /\ \A s \in Keys(signatures) \cup Named :
       \E i \in Tasks : task[i].student = s /\ Registering(i)

\* the run ended with duplicate checking on: one student was registered,
\* the other's download failed, and the report was made without the other
C37_Witness ==
  /\ phase = "DONE"
  /\ cfg.check_plagiarism
  /\ Len(task) = 2
  /\ Registering(1)
  /\ task[2].student # task[1].student
  /\ "download" \in task[2].ran
  /\ ~task[2].zip
  /\ task[2].result.status = "success"
  /\ Keys(signatures) = {task[1].student}
  /\ queries = 1


\* the thresholds that are at most the threshold of the report
LowerThresholds ==
  {t \in DetectorThresholds :
     t.num * cfg.plagiarism_threshold.den
       <= cfg.plagiarism_threshold.num * t.den}

(* C38: on the same registered signatures, every student the full report
   flags at its threshold is flagged at every lower threshold, and every
   match of the report is a match of the report at the lower threshold:
   lowering the threshold removes no flagged student and no match. *)
C38_MonotoneInThreshold ==
  Reported =>
    \A t \in LowerThresholds :
      LET lower == get_all_plagiarism_report(signatures, t)
      IN \A a \in DOMAIN plagiarism_report :
           /\ a \in DOMAIN lower
           /\ Range(plagiarism_report[a]) \subseteq Range(lower[a])

\* at threshold 1 two students are flagged; at 3/4 a third one is, and
\* the two have one more match each
C38_Witness ==
  /\ Reported
  /\ cfg.plagiarism_threshold = [num |-> 1, den |-> 1]
  /\ Cardinality(DOMAIN plagiarism_report) = 2
  /\ LET lower == get_all_plagiarism_report(signatures, [num |-> 3, den |-> 4])
     IN /\ Cardinality(DOMAIN lower) = 3
        /\ \A a \in DOMAIN plagiarism_report :
             Len(lower[a]) = Len(plagiarism_report[a]) + 1

====
